---- MODULE Spec2Model ----
(***************************************************************************)
(* Model of backend/main.py: the /ocr handler perform_ocr, which relays an *)
(* image and a prompt to the Ollama streaming endpoint, accumulates the    *)
(* streamed "response" deltas, and draw_bounding_boxes, which draws the    *)
(* [[a, b, c, d]] tuples found in the accumulated text onto the image.     *)
(*                                                                         *)
(* Text is a sequence of one-character strings.  Non-integer pixel         *)
(* coordinates are kept as fractions [num, den].                           *)
(***************************************************************************)
EXTENDS Integers, Sequences, FiniteSets, TLC

(***************************************************************************)
(* Bounds                                                                  *)
(***************************************************************************)
MaxChunks == 3
NumRequests == 2
MaxConcChunks == 2

Requests == 1..NumRequests

(***************************************************************************)
(* Text and the coordinate pattern                                         *)
(***************************************************************************)
Digits == {"0", "1", "2", "3", "4", "5", "6", "7", "8", "9"}
Whitespace == {" ", "\n", "\t"}

DigitVal(c) ==
    CASE c = "0" -> 0 [] c = "1" -> 1 [] c = "2" -> 2 [] c = "3" -> 3
      [] c = "4" -> 4 [] c = "5" -> 5 [] c = "6" -> 6 [] c = "7" -> 7
      [] c = "8" -> 8 [] c = "9" -> 9

\* int(s) for a non-empty string of decimal digits
RECURSIVE int(_)
int(s) ==
    IF Len(s) = 0 THEN 0
    ELSE 10 * int(SubSeq(s, 1, Len(s) - 1)) + DigitVal(s[Len(s)])

\* first index >= i of s that does not hold a character of class cls
RECURSIVE SpanEnd(_, _, _)
SpanEnd(s, i, cls) ==
    IF i <= Len(s) /\ s[i] \in cls THEN SpanEnd(s, i + 1, cls) ELSE i

Lit(s, i, c) == i <= Len(s) /\ s[i] = c

\* One attempt to match  \[\[(\d+),\s*(\d+),\s*(\d+),\s*(\d+)\]\]  at index i.
\* The character classes are disjoint from the literals that follow them,
\* so the greedy match is the only candidate at i.
coords_pattern(s, i) ==
    LET a1 == i + 2
        a2 == SpanEnd(s, a1, Digits)
        b1 == SpanEnd(s, a2 + 1, Whitespace)
        b2 == SpanEnd(s, b1, Digits)
        c1 == SpanEnd(s, b2 + 1, Whitespace)
        c2 == SpanEnd(s, c1, Digits)
        d1 == SpanEnd(s, c2 + 1, Whitespace)
        d2 == SpanEnd(s, d1, Digits)
        ok == /\ Lit(s, i, "[") /\ Lit(s, i + 1, "[")
              /\ a2 > a1 /\ Lit(s, a2, ",")
              /\ b2 > b1 /\ Lit(s, b2, ",")
              /\ c2 > c1 /\ Lit(s, c2, ",")
              /\ d2 > d1 /\ Lit(s, d2, "]") /\ Lit(s, d2 + 1, "]")
    IN  IF ok
        THEN [ok |-> TRUE, end |-> d2 + 2,
              groups |-> << SubSeq(s, a1, a2 - 1), SubSeq(s, b1, b2 - 1),
                            SubSeq(s, c1, c2 - 1), SubSeq(s, d1, d2 - 1) >>]
        ELSE [ok |-> FALSE, end |-> i, groups |-> << >>]

\* re.findall: leftmost non-overlapping matches, scanning from index i
RECURSIVE findall_from(_, _)
findall_from(s, i) ==
    IF i > Len(s) THEN << >>
    ELSE LET m == coords_pattern(s, i)
         IN  IF m.ok THEN << m.groups >> \o findall_from(s, m.end)
             ELSE findall_from(s, i + 1)

findall(s) == findall_from(s, 1)

(***************************************************************************)
(* Upstream chunks.  A chunk is what one iteration of aiter_bytes yields:  *)
(*   empty     b""                                                         *)
(*   utf8      the bytes are valid UTF-8                                   *)
(*   json      "invalid" (json.loads raises JSONDecodeError), "object"     *)
(*             (a JSON object) or "other" (a JSON list, number, string)    *)
(*   resp_kind "absent" (no "response" key), "str", or "null" (the key     *)
(*             holds a value that is not a string)                         *)
(*   response  the text delta when resp_kind = "str"                       *)
(*   done      "absent", "true" or "false"                                 *)
(***************************************************************************)
Fragment(resp_kind, response, done) ==
    [empty |-> FALSE, utf8 |-> TRUE, json |-> "object",
     resp_kind |-> resp_kind, response |-> response, done |-> done]

Garbage(empty, utf8, json) ==
    [empty |-> empty, utf8 |-> utf8, json |-> json,
     resp_kind |-> "absent", response |-> << >>, done |-> "absent"]

\* "Hi "
t_hello == << "H", "i", " " >>
\* "[[100, 200, 300, 400]]"
t_box == << "[", "[", "1", "0", "0", ",", " ", "2", "0", "0", ",", " ", "3", "0", "0", ",", " ", "4", "0", "0", "]", "]" >>
\* "[[0,0,5" and "00,1000]] W": one tuple split over two deltas
t_head == << "[", "[", "0", ",", "0", ",", "5" >>
t_tail == << "0", "0", ",", "1", "0", "0", "0", "]", "]", " ", "W" >>
\* "[[300,400,100,200]]": x1 > x2 and y1 > y2
t_inverted == << "[", "[", "3", "0", "0", ",", "4", "0", "0", ",", "1", "0", "0", ",", "2", "0", "0", "]", "]" >>
\* "[[7,7,7,7]] [[0,0,1500,2000]]": a zero-area tuple and one above 1000
t_far == << "[", "[", "7", ",", "7", ",", "7", ",", "7", "]", "]", " ", "[", "[", "0", ",", "0", ",", "1", "5", "0", "0", ",", "2", "0", "0", "0", "]", "]" >>

c_hello == Fragment("str", t_hello, "false")
c_box == Fragment("str", t_box, "absent")
c_head == Fragment("str", t_head, "false")
c_tail == Fragment("str", t_tail, "true")
c_inverted == Fragment("str", t_inverted, "false")
c_far == Fragment("str", t_far, "false")
c_done == Fragment("absent", << >>, "true")
c_null == Fragment("null", << >>, "false")
c_empty == Garbage(TRUE, TRUE, "invalid")
c_badutf8 == Garbage(FALSE, FALSE, "invalid")
c_badjson == Garbage(FALSE, TRUE, "invalid")
c_nonobject == Garbage(FALSE, TRUE, "other")

Chunks == {c_hello, c_box, c_head, c_tail, c_inverted, c_far, c_done, c_null,
           c_empty, c_badutf8, c_badjson, c_nonobject}

ConcChunks == {c_box, c_badutf8}

(***************************************************************************)
(* Uploaded images.  decodable: Image.open and the pixel load succeed;     *)
(* mode "CMYK" is a mode that img.save(format="PNG") cannot write.         *)
(***************************************************************************)
Picture(pixels, decodable, w, h, mode) ==
    [pixels |-> pixels, decodable |-> decodable, w |-> w, h |-> h, mode |-> mode]

Unread == Picture(<< "unread", 0 >>, FALSE, 0, 0, "")

Images == {Picture(<< "notes.txt", 0 >>, FALSE, 0, 0, ""),
           Picture(<< "page-1000", 0 >>, TRUE, 1000, 1000, "RGB"),
           Picture(<< "page-500", 0 >>, TRUE, 500, 500, "RGB"),
           Picture(<< "strip-3x7", 0 >>, TRUE, 3, 7, "RGB"),
           Picture(<< "print-cmyk", 0 >>, TRUE, 640, 480, "CMYK")}

ConcImages == [r \in Requests |->
                 {Picture(<< "upload", r >>, TRUE, 500, 500, "RGB")}]

(***************************************************************************)
(* draw_bounding_boxes                                                     *)
(***************************************************************************)
\* Python's true division of two integers, kept exact
TrueDiv(n, d) == [num |-> n, den |-> d]

FracLess(a, b) == a.num * b.den < b.num * a.den

\* Rectangle with the axes exchanged: the first and third numbers scaled
\* by the height, the second and fourth by the width
RectangleAxesSwapped(match, w, h) ==
    LET x1 == int(match[1])
        y1 == int(match[2])
        x2 == int(match[3])
        y2 == int(match[4])
    IN  [left |-> TrueDiv(x1 * h, 1000), top |-> TrueDiv(y1 * w, 1000),
         right |-> TrueDiv(x2 * h, 1000), bottom |-> TrueDiv(y2 * w, 1000),
         outline |-> "#00ff00", width |-> 3]

\* the arguments of one draw.rectangle call for one match
Rectangle(match, w, h) ==
    LET x1 == int(match[1])
        y1 == int(match[2])
        x2 == int(match[3])
        y2 == int(match[4])
    IN  [left |-> TrueDiv(x1 * w, 1000), top |-> TrueDiv(y1 * h, 1000),
         right |-> TrueDiv(x2 * w, 1000), bottom |-> TrueDiv(y2 * h, 1000),
         outline |-> "#00ff00", width |-> 3]

\* ImageDraw.rectangle of a Pillow that checks the order of the corners
\* raises ValueError when x1 < x0 or y1 < y0; an older Pillow draws.
RectangleRaises(box, strict) ==
    strict /\ (FracLess(box.right, box.left) \/ FracLess(box.bottom, box.top))

\* the for loop over the matches: the calls made, in order, up to and
\* including the first one that raises
RECURSIVE DrawLoop(_, _, _, _)
DrawLoop(matches, w, h, strict) ==
    IF Len(matches) = 0 THEN [calls |-> << >>, exc |-> "none"]
    ELSE LET box == Rectangle(Head(matches), w, h)
         IN  IF RectangleRaises(box, strict)
             THEN [calls |-> << box >>, exc |-> "ValueError"]
             ELSE LET rest == DrawLoop(Tail(matches), w, h, strict)
                  IN  [calls |-> << box >> \o rest.calls, exc |-> rest.exc]

NoneImage ==
    [is_none |-> TRUE, format |-> "", pixels |-> << "none", 0 >>,
     size |-> << 0, 0 >>, rectangles |-> << >>]

\* base64 of the PNG of img with the rectangles drawn on it
EncodedPNG(img, rectangles) ==
    [is_none |-> FALSE, format |-> "PNG", pixels |-> img.pixels,
     size |-> << img.w, img.h >>, rectangles |-> rectangles]

\* the body of the try block: what it returns or the exception it raises
DrawTry(image_bytes, response_text, strict) ==
    IF ~image_bytes.decodable
    THEN [value |-> NoneImage, calls |-> << >>,
          exc |-> "UnidentifiedImageError"]
    ELSE LET matches == findall(response_text)
             loop == DrawLoop(matches, image_bytes.w, image_bytes.h, strict)
         IN  IF loop.exc # "none"
             THEN [value |-> NoneImage, calls |-> loop.calls, exc |-> loop.exc]
             ELSE IF image_bytes.mode = "CMYK"
             THEN [value |-> NoneImage, calls |-> loop.calls, exc |-> "OSError"]
             ELSE [value |-> EncodedPNG(image_bytes, loop.calls),
                   calls |-> loop.calls, exc |-> "none"]

\* draw_bounding_boxes without its except clause
draw_bounding_boxes_uncaught(image_bytes, response_text, strict) ==
    LET t == DrawTry(image_bytes, response_text, strict)
    IN  [value |-> t.value, calls |-> t.calls, caught |-> "none",
         raised |-> t.exc]

\* value: the return value; calls: the draw.rectangle calls made;
\* caught: the exception printed by the except clause; raised: the
\* exception that leaves the function
draw_bounding_boxes(image_bytes, response_text, strict) ==
    LET t == DrawTry(image_bytes, response_text, strict)
    IN  [value |-> t.value, calls |-> t.calls, caught |-> t.exc,
         raised |-> "none"]

(***************************************************************************)
(* perform_ocr: exceptions and the chunk loop                              *)
(***************************************************************************)
\* subclasses of httpx.HTTPError that the upstream interaction raises
HTTPErrors == {"ConnectError", "ConnectTimeout", "HTTPStatusError",
               "ReadError", "ReadTimeout", "RemoteProtocolError"}

Pending ==
    [kind |-> "pending", status_code |-> 0, detail |-> "", text |-> << >>,
     processed_image |-> NoneImage, done |-> FALSE]

\* perform_ocr with only the generic except clause
HTTPExceptionGeneric(exc) ==
    [kind |-> "error", status_code |-> 500,
     detail |-> "Internal Server Error",
     text |-> << >>, processed_image |-> NoneImage, done |-> FALSE]

\* the two except clauses of perform_ocr
HTTPException(exc) ==
    [kind |-> "error", status_code |-> 500,
     detail |-> IF exc \in HTTPErrors THEN "Ollama API Error"
                ELSE "Internal Server Error",
     text |-> << >>, processed_image |-> NoneImage, done |-> FALSE]

\* the returned dict
Success(text, image) ==
    [kind |-> "success", status_code |-> 200, detail |-> "", text |-> text,
     processed_image |-> image, done |-> TRUE]

\* json.loads(chunk.decode('utf-8')) followed by .get("response", ""):
\* the exception raised, or the content
ChunkContent(chunk) ==
    IF ~chunk.utf8 THEN [exc |-> "UnicodeDecodeError", content |-> << >>]
    ELSE IF chunk.json = "invalid"
    THEN [exc |-> "JSONDecodeError", content |-> << >>]
    ELSE IF chunk.json = "other"
    THEN [exc |-> "AttributeError", content |-> << >>]
    ELSE IF chunk.resp_kind = "absent" THEN [exc |-> "none", content |-> << >>]
    ELSE IF chunk.resp_kind = "null" THEN [exc |-> "TypeError", content |-> << >>]
    ELSE [exc |-> "none", content |-> chunk.response]

\* text_response = content
AccumulateOverwrites(text, content) == content

\* text_response += content
Accumulate(text, content) == text \o content

\* a branch on "done" that leaves the loop
DoneBranchBreaks(chunk) ==
    IF chunk.done = "true" THEN "break" ELSE "continue"

\* the branch on chunk_data.get("done"): it only logs, the loop goes on
DoneBranch(chunk) == "continue"

\* one iteration of the async for body: the new text, the exception that
\* leaves the loop ("none" if the iteration completes), and whether the
\* loop goes on
LoopBody(text, chunk) ==
    IF chunk.empty THEN [text |-> text, exc |-> "none", next |-> "continue"]
    ELSE LET c == ChunkContent(chunk)
         IN  IF c.exc = "JSONDecodeError"
             THEN [text |-> text, exc |-> "none", next |-> "continue"]
             ELSE IF c.exc # "none"
             THEN [text |-> text, exc |-> c.exc, next |-> "continue"]
             ELSE [text |-> Accumulate(text, c.content), exc |-> "none",
                   next |-> DoneBranch(chunk)]

(***************************************************************************)
(* State: one perform_ocr invocation per request id                        *)
(***************************************************************************)
VARIABLES
    pc,                      \* position of each invocation
    image_data,              \* the uploaded bytes read from file
    text_response,           \* the accumulated text
    client_open,             \* the httpx.AsyncClient block is entered
    response_open,           \* the client.stream block is entered
    arrived,                 \* the chunks the loop has received, in order
    stream_ended,            \* aiter_bytes is exhausted: upstream closed
    raised,                  \* the exception that reached an except clause
    draw_args,               \* the arguments draw_bounding_boxes was called with
    draw_calls,              \* the draw.rectangle calls it made
    draw_caught,             \* the exception its except clause printed
    processed_image_base64,  \* its return value
    outcome                  \* what the caller receives

vars == << pc, image_data, text_response, client_open, response_open, arrived,
           stream_ended, raised, draw_args, draw_calls, draw_caught,
           processed_image_base64, outcome >>

NotCalled == [called |-> FALSE, image_bytes |-> Unread, response_text |-> << >>]

Init ==
    /\ pc = [r \in Requests |-> "idle"]
    /\ image_data = [r \in Requests |-> Unread]
    /\ text_response = [r \in Requests |-> << >>]
    /\ client_open = [r \in Requests |-> FALSE]
    /\ response_open = [r \in Requests |-> FALSE]
    /\ arrived = [r \in Requests |-> << >>]
    /\ stream_ended = [r \in Requests |-> FALSE]
    /\ raised = [r \in Requests |-> "none"]
    /\ draw_args = [r \in Requests |-> NotCalled]
    /\ draw_calls = [r \in Requests |-> << >>]
    /\ draw_caught = [r \in Requests |-> "none"]
    /\ processed_image_base64 = [r \in Requests |-> NoneImage]
    /\ outcome = [r \in Requests |-> Pending]

\* Raise without the client.stream block: the response stays open
RaiseLeavesResponseOpen(r, exc) ==
    /\ pc' = [pc EXCEPT ![r] = "done"]
    /\ response_open' = response_open
    /\ client_open' = [client_open EXCEPT ![r] = FALSE]
    /\ raised' = [raised EXCEPT ![r] = exc]
    /\ outcome' = [outcome EXCEPT ![r] = HTTPException(exc)]

\* An exception leaves the two async with blocks, which close the response
\* and the client, and reaches the except clauses.
Raise(r, exc) ==
    /\ pc' = [pc EXCEPT ![r] = "done"]
    /\ response_open' = [response_open EXCEPT ![r] = FALSE]
    /\ client_open' = [client_open EXCEPT ![r] = FALSE]
    /\ raised' = [raised EXCEPT ![r] = exc]
    /\ outcome' = [outcome EXCEPT ![r] = HTTPException(exc)]

\* text_response as one module-level variable shared by the invocations
SetTextResponseShared(r, text) ==
    text_response' = [q \in Requests |-> text]

\* text_response is a local variable of the invocation
SetTextResponse(r, text) ==
    text_response' = [text_response EXCEPT ![r] = text]

\* file.read(), the payload, text_response = "" and entering AsyncClient
Begin(r, img) ==
    /\ pc[r] = "idle"
    /\ pc' = [pc EXCEPT ![r] = "connecting"]
    /\ image_data' = [image_data EXCEPT ![r] = img]
    /\ SetTextResponse(r, << >>)
    /\ client_open' = [client_open EXCEPT ![r] = TRUE]
    /\ UNCHANGED << response_open, arrived, stream_ended, raised, draw_args,
                    draw_calls, draw_caught, processed_image_base64, outcome >>

\* a single request is served
BeginAlone(r) ==
    /\ r = 1
    /\ \A q \in Requests : pc[q] = "idle"
    /\ \E img \in Images : Begin(r, img)

\* requests are served while others are in flight
BeginConcurrent(r) ==
    \E img \in ConcImages[r] : Begin(r, img)

\* client.stream(...) cannot be entered: no connection, or the timeout
ConnectFails(r) ==
    /\ pc[r] = "connecting"
    /\ \E exc \in {"ConnectError", "ConnectTimeout"} : Raise(r, exc)
    /\ UNCHANGED << image_data, text_response, arrived, stream_ended,
                    draw_args, draw_calls, draw_caught,
                    processed_image_base64 >>

\* the response headers arrive and raise_for_status() runs
ResponseStatus(r) ==
    /\ pc[r] = "connecting"
    /\ \E status \in {200, 404, 500} :
         IF status \in 200..299
         THEN /\ pc' = [pc EXCEPT ![r] = "streaming"]
              /\ response_open' = [response_open EXCEPT ![r] = TRUE]
              /\ UNCHANGED << client_open, raised, outcome >>
         ELSE Raise(r, "HTTPStatusError")
    /\ UNCHANGED << image_data, text_response, arrived, stream_ended,
                    draw_args, draw_calls, draw_caught,
                    processed_image_base64 >>

\* aiter_bytes yields a chunk and the loop body runs on it
ReceiveChunk(r, alphabet, max) ==
    /\ pc[r] = "streaming"
    /\ Len(arrived[r]) < max
    /\ \E chunk \in alphabet :
         LET b == LoopBody(text_response[r], chunk)
         IN  /\ arrived' = [arrived EXCEPT ![r] = Append(@, chunk)]
             /\ IF b.exc # "none"
                THEN /\ Raise(r, b.exc)
                     /\ UNCHANGED text_response
                ELSE /\ SetTextResponse(r, b.text)
                     /\ IF b.next = "continue"
                        THEN UNCHANGED << pc, response_open >>
                        ELSE /\ pc' = [pc EXCEPT ![r] = "annotate"]
                             /\ response_open' =
                                    [response_open EXCEPT ![r] = FALSE]
                     /\ UNCHANGED << client_open, raised, outcome >>
    /\ UNCHANGED << image_data, stream_ended, draw_args, draw_calls,
                    draw_caught, processed_image_base64 >>

\* the connection breaks or times out while the loop waits for a chunk
StreamBreaks(r) ==
    /\ pc[r] = "streaming"
    /\ \E exc \in {"ReadError", "ReadTimeout", "RemoteProtocolError"} :
         Raise(r, exc)
    /\ UNCHANGED << image_data, text_response, arrived, stream_ended,
                    draw_args, draw_calls, draw_caught,
                    processed_image_base64 >>

\* upstream closes the connection: the loop ends and the client.stream
\* block is left
StreamEnds(r) ==
    /\ pc[r] = "streaming"
    /\ stream_ended' = [stream_ended EXCEPT ![r] = TRUE]
    /\ response_open' = [response_open EXCEPT ![r] = FALSE]
    /\ pc' = [pc EXCEPT ![r] = "annotate"]
    /\ UNCHANGED << image_data, text_response, client_open, arrived, raised,
                    draw_args, draw_calls, draw_caught,
                    processed_image_base64, outcome >>

\* draw_bounding_boxes(image_data, text_response) and the return statement
Annotate(r) ==
    /\ pc[r] = "annotate"
    /\ \E strict \in BOOLEAN :
         LET d == draw_bounding_boxes(image_data[r], text_response[r], strict)
         IN  /\ draw_args' = [draw_args EXCEPT ![r] =
                    [called |-> TRUE, image_bytes |-> image_data[r],
                     response_text |-> text_response[r]]]
             /\ draw_calls' = [draw_calls EXCEPT ![r] = d.calls]
             /\ draw_caught' = [draw_caught EXCEPT ![r] = d.caught]
             /\ IF d.raised # "none"
                THEN /\ Raise(r, d.raised)
                     /\ UNCHANGED processed_image_base64
                ELSE /\ processed_image_base64' =
                            [processed_image_base64 EXCEPT ![r] = d.value]
                     /\ pc' = [pc EXCEPT ![r] = "closing"]
                     /\ UNCHANGED << client_open, response_open, raised,
                                     outcome >>
    /\ UNCHANGED << image_data, text_response, arrived, stream_ended >>

\* the AsyncClient block is left and the dict goes to the caller
Respond(r) ==
    /\ pc[r] = "closing"
    /\ client_open' = [client_open EXCEPT ![r] = FALSE]
    /\ outcome' = [outcome EXCEPT ![r] =
                      Success(text_response[r], processed_image_base64[r])]
    /\ pc' = [pc EXCEPT ![r] = "done"]
    /\ UNCHANGED << image_data, text_response, response_open, arrived,
                    stream_ended, raised, draw_args, draw_calls, draw_caught,
                    processed_image_base64 >>

Next ==
    \E r \in Requests :
      \/ BeginAlone(r)
      \/ ConnectFails(r)
      \/ ResponseStatus(r)
      \/ ReceiveChunk(r, Chunks, MaxChunks)
      \/ StreamBreaks(r)
      \/ StreamEnds(r)
      \/ Annotate(r)
      \/ Respond(r)

Spec == Init /\ [][Next]_vars

NextConc ==
    \E r \in Requests :
      \/ BeginConcurrent(r)
      \/ ConnectFails(r)
      \/ ResponseStatus(r)
      \/ ReceiveChunk(r, ConcChunks, MaxConcChunks)
      \/ StreamBreaks(r)
      \/ StreamEnds(r)
      \/ Annotate(r)
      \/ Respond(r)

SpecConc == Init /\ [][NextConc]_vars

(***************************************************************************)
(* Vocabulary of the properties                                            *)
(***************************************************************************)
\* a chunk that decodes into a fragment: a JSON object whose "response",
\* when present, is text
IsFragment(chunk) ==
    /\ ~chunk.empty /\ chunk.utf8 /\ chunk.json = "object"
    /\ chunk.resp_kind \in {"absent", "str"}

\* a chunk whose bytes cannot be decoded: not UTF-8, or not JSON
IsUndecodable(chunk) ==
    ~chunk.empty /\ (~chunk.utf8 \/ chunk.json = "invalid")

Delta(chunk) == IF chunk.resp_kind = "str" THEN chunk.response ELSE << >>

\* the deltas of the fragments of a chunk sequence, concatenated in order
RECURSIVE ConcatDeltas(_)
ConcatDeltas(chunks) ==
    IF Len(chunks) = 0 THEN << >>
    ELSE (IF IsFragment(Head(chunks)) THEN Delta(Head(chunks)) ELSE << >>)
         \o ConcatDeltas(Tail(chunks))

AllFragments(chunks) == \A i \in 1..Len(chunks) : IsFragment(chunks[i])

\* the fraction f is the integer n
FracIs(f, n) == f.num = n * f.den

\* the four numbers of a match
Numbers(match) == [i \in 1..4 |-> int(match[i])]

InRange(match) == \A i \in 1..4 : Numbers(match)[i] <= 1000

Decoded(r) == draw_args[r].called /\ draw_args[r].image_bytes.decodable

Matches(r) == findall(draw_args[r].response_text)

(***************************************************************************)
(* Properties                                                              *)
(***************************************************************************)

\* C1: when the chunks that arrived are fragments interleaved with chunks
\* whose bytes cannot be decoded, and the upstream interaction itself did
\* not fail, the request does not end in an error because of them: it ends
\* in success and the returned text is the concatenation of the fragments'
\* deltas in arrival order.
C1_UndecodableChunksAreSkipped ==
    \A r \in Requests :
      ( /\ pc[r] = "done"
        /\ raised[r] \notin HTTPErrors
        /\ \A i \in 1..Len(arrived[r]) :
             IsFragment(arrived[r][i]) \/ IsUndecodable(arrived[r][i]) )
      => /\ outcome[r].kind = "success"
         /\ outcome[r].text = ConcatDeltas(arrived[r])

\* C2: while every chunk that arrived is a fragment, the accumulated text
\* is the concatenation of the fragments' deltas in arrival order (a
\* fragment without "response" contributes nothing), whatever their "done"
\* flags; no such chunk ends the request, and the request that ends
\* without an upstream failure returns exactly that text.
C2_TextIsConcatenationOfDeltas ==
    \A r \in Requests :
      AllFragments(arrived[r])
      => /\ text_response[r] = ConcatDeltas(arrived[r])
         /\ raised[r] \in HTTPErrors \cup {"none"}
         /\ (pc[r] = "done" /\ raised[r] = "none")
            => /\ outcome[r].kind = "success"
               /\ outcome[r].text = ConcatDeltas(arrived[r])

\* C2 witness: a successful request whose fragments include one with
\* done = true followed by a fragment with a non-empty delta, and one
\* without a "response" field.
C2_Witness ==
    \E r \in Requests :
      /\ outcome[r].kind = "success"
      /\ AllFragments(arrived[r])
      /\ \E i, j \in 1..Len(arrived[r]) :
           /\ i < j
           /\ arrived[r][i].done = "true"
           /\ arrived[r][j].resp_kind = "str"
      /\ \E k \in 1..Len(arrived[r]) : arrived[r][k].resp_kind = "absent"

\* C3: a request whose upstream interaction failed (no connection, a
\* non-2xx status, a timeout, a connection broken in mid-stream) ends with
\* status 500 and the detail "Ollama API Error"; it returns no text and no
\* image, and draw_bounding_boxes was not invoked for it.
C3_UpstreamFailureIsOllamaApiError ==
    \A r \in Requests :
      raised[r] \in HTTPErrors
      => /\ pc[r] = "done"
         /\ outcome[r].kind = "error"
         /\ outcome[r].status_code = 500
         /\ outcome[r].detail = "Ollama API Error"
         /\ outcome[r].text = << >>
         /\ outcome[r].processed_image.is_none
         /\ ~draw_args[r].called

\* C3 witness: the connection broke after some deltas were accumulated.
C3_Witness ==
    \E r \in Requests :
      /\ raised[r] \in {"ReadError", "ReadTimeout", "RemoteProtocolError"}
      /\ text_response[r] # << >>

\* C4: a failure inside draw_bounding_boxes is absorbed there: it returns
\* None and raises nothing, and the request still ends in success with the
\* full accumulated text, processed_image = null and done = true; a request
\* whose upstream stream ended without error never ends in an error.
C4_AnnotationFailureIsAbsorbed ==
    \A r \in Requests :
      /\ (draw_args[r].called /\ draw_caught[r] # "none")
         => /\ processed_image_base64[r].is_none
            /\ raised[r] = "none"
            /\ pc[r] \in {"closing", "done"}
            /\ pc[r] = "done"
               => /\ outcome[r].kind = "success"
                  /\ outcome[r].text = ConcatDeltas(arrived[r])
                  /\ outcome[r].processed_image.is_none
                  /\ outcome[r].done
      /\ (stream_ended[r] /\ pc[r] = "done") => outcome[r].kind = "success"

\* C4 witness: a request answered with text although its image could not
\* be annotated.
C4_Witness ==
    \E r \in Requests :
      /\ draw_caught[r] # "none"
      /\ outcome[r].kind = "success"
      /\ outcome[r].text # << >>

\* C5: when a request has terminated, by success or by any error, its
\* stream response and its HTTP client are closed; the response is never
\* open outside the client; and the stream response is already closed when
\* draw_bounding_boxes is invoked.
C5_ConnectionsAreReleased ==
    \A r \in Requests :
      /\ (pc[r] = "done" \/ outcome[r].kind # "pending")
         => (~client_open[r] /\ ~response_open[r])
      /\ response_open[r] => client_open[r]
      /\ pc[r] = "annotate" => ~response_open[r]
      /\ draw_args[r].called => ~response_open[r]

\* C5 witness: a request ended by an error raised while a chunk was
\* processed, after the stream had been opened.
C5_Witness ==
    \E r \in Requests :
      /\ pc[r] = "done"
      /\ raised[r] \notin HTTPErrors \cup {"none"}
      /\ Len(arrived[r]) > 1

C7_OneRectanglePerMatch ==
    \A r \in Requests :
      Decoded(r) =>
        LET img == draw_args[r].image_bytes
        IN  /\ Len(draw_calls[r]) = Len(Matches(r))
            /\ \A k \in 1..Len(draw_calls[r]) :
                 draw_calls[r][k] = Rectangle(Matches(r)[k], img.w, img.h)
            /\ ~processed_image_base64[r].is_none
               => processed_image_base64[r].rectangles = draw_calls[r]
            /\ Len(Matches(r)) = 0
               => /\ ~processed_image_base64[r].is_none
                  /\ processed_image_base64[r].pixels = img.pixels
                  /\ processed_image_base64[r].size = << img.w, img.h >>

\* C8: for every coordinate tuple, degenerate and out-of-range ones
\* included, draw_bounding_boxes does not fail on the tuple, hands its four
\* scaled values to the drawing primitive unchanged, and still draws the
\* rectangles of the other matches of the text.
C8_DegenerateTuplesDoNotStopDrawing ==
    \A r \in Requests :
      Decoded(r) =>
        LET img == draw_args[r].image_bytes
        IN  /\ draw_caught[r] # "ValueError"
            /\ Len(draw_calls[r]) = Len(Matches(r))
            /\ \A k \in 1..Len(draw_calls[r]) :
                 draw_calls[r][k] = Rectangle(Matches(r)[k], img.w, img.h)

\* C9: draw_bounding_boxes is invoked, and the success result delivered,
\* only after the upstream stream has ended; the text returned is the
\* accumulated text and the text given to draw_bounding_boxes; a request
\* has an outcome exactly when it has terminated, and the outcome is a
\* success when nothing was raised and one error otherwise.
C9_NoPartialResult ==
    \A r \in Requests :
      /\ draw_args[r].called
         => /\ stream_ended[r] /\ ~response_open[r]
            /\ draw_args[r].response_text = text_response[r]
            /\ draw_args[r].image_bytes = image_data[r]
      /\ pc[r] \in {"annotate", "closing"} => stream_ended[r]
      /\ outcome[r].kind = "success"
         => /\ stream_ended[r] /\ pc[r] = "done" /\ raised[r] = "none"
            /\ draw_args[r].called
            /\ outcome[r].text = text_response[r]
            /\ outcome[r].text = draw_args[r].response_text
            /\ outcome[r].text = ConcatDeltas(arrived[r])
            /\ outcome[r].processed_image = processed_image_base64[r]
            /\ outcome[r].done
      /\ (pc[r] = "done") <=> (outcome[r].kind # "pending")
      /\ (outcome[r].kind = "error") <=> (raised[r] # "none")
      /\ outcome[r].kind \in {"pending", "success", "error"}

\* C9 witness: a success delivered after a stream in which the fragment
\* with done = true was not the last chunk.
C9_Witness ==
    \E r \in Requests :
      /\ outcome[r].kind = "success"
      /\ \E i \in 1..Len(arrived[r]) :
           /\ i < Len(arrived[r])
           /\ arrived[r][i].done = "true"

\* the variables of one invocation
Locals(r) ==
    << pc[r], image_data[r], text_response[r], client_open[r],
       response_open[r], arrived[r], stream_ended[r], raised[r], draw_args[r],
       draw_calls[r], draw_caught[r], processed_image_base64[r], outcome[r] >>

\* every invocation's text is made of the deltas of its own stream, and
\* its annotated image of its own upload and its own text
OwnInputsOnly ==
    \A r \in Requests :
      /\ text_response[r] = ConcatDeltas(arrived[r])
      /\ image_data[r] \in ConcImages[r] \cup {Unread}
      /\ outcome[r].kind = "success"
         => /\ outcome[r].text = ConcatDeltas(arrived[r])
            /\ outcome[r].processed_image =
                 draw_bounding_boxes(image_data[r], ConcatDeltas(arrived[r]),
                                     TRUE).value

\* C10: with requests interleaving at their suspension points, every
\* request's text is the concatenation of the deltas of its own stream and
\* its annotated image comes from its own image and text, and a step of
\* one request (its failure included) changes nothing of any other.
C10_RequestsAreIsolated ==
    /\ []OwnInputsOnly
    /\ [][\E r \in Requests :
            \A q \in Requests \ {r} : Locals(q)' = Locals(q)]_vars

\* C10 witness: one request failed after chunks had arrived and another
\* succeeded with text and an annotated image.
C10_Witness ==
    \E r, q \in Requests :
      /\ r # q
      /\ outcome[r].kind = "error"
      /\ Len(arrived[r]) > 0
      /\ outcome[q].kind = "success"
      /\ outcome[q].text # << >>
      /\ ~outcome[q].processed_image.is_none

====
